---------------------------- MODULE Spec2Model ----------------------------
(***************************************************************************)
(* Authority rotation engine of the beacon chain                           *)
(* (core/beacon/src/authority.rs): the threshold solver find_threshold,    *)
(* the slot assigner proposals_to_authority, the proposal ledger and the   *)
(* epoch state machine of process_block_header, and get_authorities.       *)
(*                                                                         *)
(* Maps (HashMap) are functions whose DOMAIN is the key set; vectors are   *)
(* sequences (1-based here, 0-based in the source).  A panic (expect,      *)
(* assert!, slice index) is recorded in the engine's `panic` field and     *)
(* stops the engine.  Amounts stay far below 2^63, so the u64/i64          *)
(* arithmetic of the source never wraps inside the model.                  *)
(***************************************************************************)
EXTENDS Integers, Sequences, FiniteSets, TLC

VARIABLES
    authority_config,  \* Authority.authority_config
    rng,               \* the output stream of StdRng seeded with CryptoHash::default()
    authority,         \* the Authority engine
    authority2,        \* a second engine, fed the same headers (SpecPair only)
    header_index,      \* header.body.index of the last header processed (0: none yet)
    headers,           \* the headers processed since the last epoch boundary, the
                       \* one that crossed the next boundary included
    built,              \* history: epoch |-> threshold returned when its committees were built
    call,              \* the last call made on the engine: operation, argument, result
    ft_proposed,       \* find_threshold argument `proposed`   (SpecFT only)
    ft_num_seats,      \* find_threshold argument `num_seats`  (SpecFT only)
    ft_result          \* find_threshold result                (SpecFT only)

vars == <<authority_config, rng, authority, authority2, header_index, headers, built, call,
          ft_proposed, ft_num_seats, ft_result>>

----------------------------------------------------------------------------
(* Bounds *)

\* highest header index handed to the engine
MaxIndex == 3
\* find_threshold inputs: list length, amounts and seat counts
MaxLen == 3
MaxAmount == 6
MaxNumSeats == 4
MaxEpochLength == 2
MaxSeatsPerSlot == 2

----------------------------------------------------------------------------
(* Generic helpers for maps and sequences *)

EmptyMap == <<>>

HasKey(m, k) == k \in DOMAIN m

\* HashMap::insert
MapInsert(m, k, v) == [x \in (DOMAIN m) \cup {k} |-> IF x = k THEN v ELSE m[x]]

\* HashMap::extend
MapExtend(m, n) == [x \in (DOMAIN m) \cup (DOMAIN n) |-> IF x \in DOMAIN n THEN n[x] ELSE m[x]]

Range(s) == {s[i] : i \in DOMAIN s}

\* all sequences that list the elements of the finite set S once each
RECURSIVE Orderings(_)
Orderings(S) ==
    IF S = {} THEN {<<>>}
    ELSE UNION {{<<x>> \o t : t \in Orderings(S \ {x})} : x \in S}

\* sequences over S of length 0..n
SeqsUpTo(S, n) == UNION {[1..k -> S] : k \in 0..n}

----------------------------------------------------------------------------
(* find_threshold *)

RECURSIVE SumSeq(_)
SumSeq(s) == IF s = <<>> THEN 0 ELSE s[1] + SumSeq(Tail(s))

\* FirstBelow with the pre-check comparing `<=` instead of `<`
RECURSIVE FirstBelow_le(_, _, _)
FirstBelow_le(proposed, i, num_seats) ==
    IF i > Len(proposed) THEN 0
    ELSE IF proposed[i] <= num_seats THEN i
    ELSE FirstBelow_le(proposed, i + 1, num_seats)

\* the pre-check loop: the first item below num_seats, as an Err
RECURSIVE FirstBelow(_, _, _)
FirstBelow(proposed, i, num_seats) ==
    IF i > Len(proposed) THEN 0
    ELSE IF proposed[i] < num_seats THEN i
    ELSE FirstBelow(proposed, i + 1, num_seats)

\* the inner loop: accumulate item / mid and break as soon as the seats are covered
RECURSIVE Covers(_, _, _, _, _)
Covers(proposed, i, current_sum, mid, num_seats) ==
    IF i > Len(proposed) THEN FALSE
    ELSE LET s == current_sum + (proposed[i] \div mid)
         IN  IF s >= num_seats THEN TRUE
             ELSE Covers(proposed, i + 1, s, mid, num_seats)

\* Search with the loop condition `left < right` instead of `left <= right`
RECURSIVE Search_lt(_, _, _, _, _)
Search_lt(proposed, num_seats, left, right, result) ==
    IF left >= right THEN result
    ELSE LET mid == (left + right) \div 2
         IN  IF ~Covers(proposed, 1, 0, mid, num_seats)
             THEN Search_lt(proposed, num_seats, left, mid - 1, result)
             ELSE Search_lt(proposed, num_seats, mid + 1, right, mid)

\* the binary search loop `while left <= right`
RECURSIVE Search(_, _, _, _, _)
Search(proposed, num_seats, left, right, result) ==
    IF left > right THEN result
    ELSE LET mid == (left + right) \div 2
         IN  IF ~Covers(proposed, 1, 0, mid, num_seats)
             THEN Search(proposed, num_seats, left, mid - 1, result)
             ELSE Search(proposed, num_seats, mid + 1, right, mid)

\* Result<u64, String>: ok = FALSE is Err, value then the offending item
find_threshold(proposed, num_seats) ==
    LET sum == SumSeq(proposed)
        bad == FirstBelow(proposed, 1, num_seats)
    IN  IF bad # 0 THEN [ok |-> FALSE, value |-> proposed[bad]]
        ELSE [ok |-> TRUE, value |-> Search(proposed, num_seats, 2, sum, 1)]

----------------------------------------------------------------------------
(* Data model *)

AuthorityProposal(account_id, public_key, amount) ==
    [account_id |-> account_id, public_key |-> public_key, amount |-> amount]

SelectedAuthority(account_id, public_key) ==
    [account_id |-> account_id, public_key |-> public_key]

RecordedProposal(public_key, stake) ==
    [public_key |-> public_key, stake |-> stake]

\* get_test_config(4, 2, 2): accounts "0".."3", amount 100 each
TestAuthorities ==
    << AuthorityProposal("0", "pk0", 100), AuthorityProposal("1", "pk1", 100),
       AuthorityProposal("2", "pk2", 100), AuthorityProposal("3", "pk3", 100) >>

AuthorityConfig(initial_authorities, epoch_length, num_seats_per_slot) ==
    [initial_authorities |-> initial_authorities,
     epoch_length |-> epoch_length,
     num_seats_per_slot |-> num_seats_per_slot]

\* the configuration of test_authority_genesis
TestConfig == AuthorityConfig(TestAuthorities, 2, 2)

\* the configurations the engine is constructed with
Configs ==
    { TestConfig,
      AuthorityConfig(SubSeq(TestAuthorities, 1, 2), 1, 2),
      AuthorityConfig(<<AuthorityProposal("0", "pk0", 300),
                        AuthorityProposal("1", "pk1", 100)>>, 2, 2) }

\* header.body.authority_proposal: empty, one proposal (an initial authority
\* that stakes again with a new key, a newcomer with a small stake), or two
\* proposals from distinct newcomers
ProposalLists ==
    { <<>>,
      << AuthorityProposal("1", "pk1b", 100) >>,
      << AuthorityProposal("y", "pky", 3) >>,
      << AuthorityProposal("x", "pkx", 300), AuthorityProposal("w", "pkw", 300) >> }

----------------------------------------------------------------------------
(* The shuffle: StdRng seeded from the all-zero CryptoHash, then Rng::shuffle.
   The generator is deterministic and the seed is constant, so every call
   sees the same output stream.  The stream itself is not computed here: it
   is one of RngStreams, each of which reproduces the committees asserted by
   test_authority_genesis (4 tokens -> positions 0,3,2,1; 6 tokens
   0,0,1,1,2,2 -> 1,0,0,2 in the first four seats). *)

RngStreams ==
    { << 5,  8, 3, 0, 1, 4, 2, 7, 1, 3, 0, 6 >>,
      << 9, 14, 7, 1, 0, 2, 5, 3, 4, 0, 1, 8 >> }

\* the k-th output of the generator after seeding
NextRaw(k) == rng[((k - 1) % Len(rng)) + 1]

\* Rng::gen_range(low, high): a raw output reduced to [low, high)
GenRange(raw, low, high) == low + (raw % (high - low))

\* values.swap(i, j), 0-based
Swap(values, i, j) ==
    [p \in DOMAIN values |->
        IF p = i + 1 THEN values[j + 1]
        ELSE IF p = j + 1 THEN values[i + 1]
        ELSE values[p]]

\* Rng::shuffle: while i >= 2 { i -= 1; values.swap(i, gen_range(0, i + 1)) }
RECURSIVE ShuffleFrom(_, _, _)
ShuffleFrom(values, i, k) ==
    IF i < 2 THEN values
    ELSE ShuffleFrom(Swap(values, i - 1, GenRange(NextRaw(k), 0, i)), i - 1, k + 1)

Shuffle(values) == ShuffleFrom(values, Len(values), 1)

----------------------------------------------------------------------------
(* Authority *)

NoPanic == "none"
PanicThreshold == "Threshold is not found for given proposals."
PanicSeats == "Number of selected seats < total number of seats"
PanicIndex == "Processing block has unexpected index"
PanicMissingThreshold == "Missing threshold for current epoch"
PanicMissingProposals == "Missing proposals for current epoch"
PanicBounds == "index out of bounds"

\* `item.amount / threshold` copies of one proposal's SelectedAuthority
Copies(item, n) == [c \in 1..n |-> SelectedAuthority(item.account_id, item.public_key)]

\* DupProposals that gives tokens only to an amount above the threshold (`>` for `>=`)
RECURSIVE DupProposals_gt(_, _)
DupProposals_gt(proposals, threshold) ==
    IF proposals = <<>> THEN <<>>
    ELSE LET item == Head(proposals)
             mine == IF item.amount > threshold
                     THEN Copies(item, item.amount \div threshold)
                     ELSE <<>>
         IN  mine \o DupProposals_gt(Tail(proposals), threshold)

\* DupProposals with the inclusive range `0..=item.amount / threshold`
RECURSIVE DupProposals_inclusive(_, _)
DupProposals_inclusive(proposals, threshold) ==
    IF proposals = <<>> THEN <<>>
    ELSE LET item == Head(proposals)
             mine == IF item.amount >= threshold
                     THEN Copies(item, (item.amount \div threshold) + 1)
                     ELSE <<>>
         IN  mine \o DupProposals_inclusive(Tail(proposals), threshold)

\* the dup_proposals loop
RECURSIVE DupProposals(_, _)
DupProposals(proposals, threshold) ==
    IF proposals = <<>> THEN <<>>
    ELSE LET item == Head(proposals)
             mine == IF item.amount >= threshold
                     THEN Copies(item, item.amount \div threshold)
                     ELSE <<>>
         IN  mine \o DupProposals(Tail(proposals), threshold)

\* proposals_to_authority that keys the slots from epoch * epoch_length + i (no `+ 1`)
proposals_to_authority_from_zero(self, proposals, epoch_offset) ==
    LET epoch_length == authority_config.epoch_length
        num_seats_per_slot == authority_config.num_seats_per_slot
        num_seats == num_seats_per_slot * epoch_length
        proposal_amounts == [i \in DOMAIN proposals |-> proposals[i].amount]
        found == find_threshold(proposal_amounts, num_seats)
        threshold == found.value
        dup_proposals == DupProposals(proposals, threshold)
        shuffled == Shuffle(dup_proposals)
        first == (self.current_epoch + epoch_offset) * epoch_length
        result == [index \in first..(first + epoch_length - 1) |->
                      SubSeq(shuffled,
                             (index - first) * num_seats_per_slot + 1,
                             (index - first + 1) * num_seats_per_slot)]
    IN  IF ~found.ok
        THEN [panic |-> PanicThreshold, authorities |-> EmptyMap, threshold |-> 0]
        ELSE IF Len(dup_proposals) < num_seats
        THEN [panic |-> PanicSeats, authorities |-> EmptyMap, threshold |-> threshold]
        ELSE [panic |-> NoPanic, authorities |-> result, threshold |-> threshold]

\* (HashMap<u64, Vec<SelectedAuthority>>, u64), or the panic that aborts the call
proposals_to_authority(self, proposals, epoch_offset) ==
    LET epoch_length == authority_config.epoch_length
        num_seats_per_slot == authority_config.num_seats_per_slot
        num_seats == num_seats_per_slot * epoch_length
        proposal_amounts == [i \in DOMAIN proposals |-> proposals[i].amount]
        found == find_threshold(proposal_amounts, num_seats)
        threshold == found.value
        dup_proposals == DupProposals(proposals, threshold)
        shuffled == Shuffle(dup_proposals)
        first == (self.current_epoch + epoch_offset) * epoch_length
        result == [index \in (first + 1)..(first + epoch_length) |->
                      SubSeq(shuffled,
                             (index - first - 1) * num_seats_per_slot + 1,
                             (index - first) * num_seats_per_slot)]
    IN  IF ~found.ok
        THEN [panic |-> PanicThreshold, authorities |-> EmptyMap, threshold |-> 0]
        ELSE IF Len(dup_proposals) < num_seats
        THEN [panic |-> PanicSeats, authorities |-> EmptyMap, threshold |-> threshold]
        ELSE [panic |-> NoPanic, authorities |-> result, threshold |-> threshold]

\* Authority::get_authorities
get_authorities(self, index) ==
    IF index = 0 THEN [ok |-> TRUE, value |-> <<>>]
    ELSE IF HasKey(self.current, index) THEN [ok |-> TRUE, value |-> self.current[index]]
    ELSE [ok |-> FALSE, value |-> <<>>]

\* the struct literal at the top of Authority::new
EmptyAuthority ==
    [current_epoch |-> 0,
     current |-> EmptyMap,
     current_threshold |-> EmptyMap,
     proposals |-> EmptyMap,
     accepted_proposals |-> EmptyMap,
     panic |-> NoPanic]

\* new that installs the initial committees for epoch 0 only
new_single_epoch ==
    LET self == EmptyAuthority
        initial_authorities == authority_config.initial_authorities
        pta == proposals_to_authority(self, initial_authorities, 0)
    IN  IF pta.panic # NoPanic THEN [self EXCEPT !.panic = pta.panic]
        ELSE [self EXCEPT
                 !.current = pta.authorities,
                 !.current_threshold = MapInsert(MapInsert(EmptyMap, 0, pta.threshold), 1, pta.threshold),
                 !.accepted_proposals = MapInsert(MapInsert(EmptyMap, 0, initial_authorities),
                                                  1, initial_authorities)]

\* Authority::new over a chain that holds only genesis (the replay loop 1..0 is empty)
new ==
    LET self == EmptyAuthority
        initial_authorities == authority_config.initial_authorities
        pta == proposals_to_authority(self, initial_authorities, 0)
        initial_authority == pta.authorities
        shifted == [index \in {i + authority_config.epoch_length : i \in DOMAIN initial_authority}
                       |-> initial_authority[index - authority_config.epoch_length]]
    IN  IF pta.panic # NoPanic THEN [self EXCEPT !.panic = pta.panic]
        ELSE [self EXCEPT
                 !.current = MapExtend(initial_authority, shifted),
                 !.current_threshold = MapInsert(MapInsert(EmptyMap, 0, pta.threshold), 1, pta.threshold),
                 !.accepted_proposals = MapInsert(MapInsert(EmptyMap, 0, initial_authorities),
                                                  1, initial_authorities)]

----------------------------------------------------------------------------
(* process_block_header *)

Header(index, authority_proposal, authority_mask) ==
    [index |-> index, authority_proposal |-> authority_proposal,
     authority_mask |-> authority_mask]

\* RecordProposals that adds the amount to a stake already on record
RECURSIVE RecordProposals_additive(_, _)
RecordProposals_additive(proposals, authority_proposal) ==
    IF authority_proposal = <<>> THEN proposals
    ELSE LET p == Head(authority_proposal)
             stake == IF HasKey(proposals, p.account_id)
                      THEN proposals[p.account_id].stake + p.amount
                      ELSE p.amount
         IN  RecordProposals_additive(
                 MapInsert(proposals, p.account_id, RecordedProposal(p.public_key, stake)),
                 Tail(authority_proposal))

\* the loop over header.body.authority_proposal: insert overwrites
RECURSIVE RecordProposals(_, _)
RecordProposals(proposals, authority_proposal) ==
    IF authority_proposal = <<>> THEN proposals
    ELSE LET p == Head(authority_proposal)
         IN  RecordProposals(
                 MapInsert(proposals, p.account_id,
                           RecordedProposal(p.public_key, p.amount)),
                 Tail(authority_proposal))

\* Penalize that subtracts the threshold only from an entry already recorded
RECURSIVE Penalize_fresh(_, _, _, _)
Penalize_fresh(self, header_authorities, authority_mask, i) ==
    IF i > Len(authority_mask) THEN self
    ELSE IF authority_mask[i] THEN Penalize_fresh(self, header_authorities, authority_mask, i + 1)
    ELSE IF ~HasKey(self.current_threshold, self.current_epoch)
    THEN [self EXCEPT !.panic = PanicMissingThreshold]
    ELSE IF i > Len(header_authorities)
    THEN [self EXCEPT !.panic = PanicBounds]
    ELSE LET threshold == self.current_threshold[self.current_epoch]
             account_id == header_authorities[i].account_id
             recorded_proposal ==
                 IF HasKey(self.proposals, account_id)
                 THEN [self.proposals[account_id] EXCEPT !.stake = @ - threshold]
                 ELSE RecordedProposal(header_authorities[i].public_key, 0)
         IN  Penalize_fresh([self EXCEPT !.proposals = MapInsert(@, account_id, recorded_proposal)],
                            header_authorities, authority_mask, i + 1)

\* Penalize that penalizes the seats that did participate
RECURSIVE Penalize_inverted(_, _, _, _)
Penalize_inverted(self, header_authorities, authority_mask, i) ==
    IF i > Len(authority_mask) THEN self
    ELSE IF ~authority_mask[i] THEN Penalize_inverted(self, header_authorities, authority_mask, i + 1)
    ELSE IF ~HasKey(self.current_threshold, self.current_epoch)
    THEN [self EXCEPT !.panic = PanicMissingThreshold]
    ELSE IF i > Len(header_authorities)
    THEN [self EXCEPT !.panic = PanicBounds]
    ELSE LET threshold == self.current_threshold[self.current_epoch]
             account_id == header_authorities[i].account_id
             entry == IF HasKey(self.proposals, account_id)
                      THEN self.proposals[account_id]
                      ELSE RecordedProposal(header_authorities[i].public_key, 0)
             recorded_proposal == [entry EXCEPT !.stake = entry.stake - threshold]
         IN  Penalize_inverted([self EXCEPT !.proposals = MapInsert(@, account_id, recorded_proposal)],
                               header_authorities, authority_mask, i + 1)

\* the loop over header.authority_mask, from position i (1-based) on
RECURSIVE Penalize(_, _, _, _)
Penalize(self, header_authorities, authority_mask, i) ==
    IF i > Len(authority_mask) THEN self
    ELSE IF authority_mask[i] THEN Penalize(self, header_authorities, authority_mask, i + 1)
    ELSE IF ~HasKey(self.current_threshold, self.current_epoch)
    THEN [self EXCEPT !.panic = PanicMissingThreshold]
    ELSE IF i > Len(header_authorities)
    THEN [self EXCEPT !.panic = PanicBounds]
    ELSE LET threshold == self.current_threshold[self.current_epoch]
             account_id == header_authorities[i].account_id
             entry == IF HasKey(self.proposals, account_id)
                      THEN self.proposals[account_id]
                      ELSE RecordedProposal(header_authorities[i].public_key, 0)
             recorded_proposal == [entry EXCEPT !.stake = entry.stake - threshold]
         IN  Penalize([self EXCEPT !.proposals = MapInsert(@, account_id, recorded_proposal)],
                      header_authorities, authority_mask, i + 1)

\* the orders in which self.proposals.iter() can yield the entries that the
\* filter_map keeps (stake > 0): a HashMap iterates in no specified order
IterOrders(proposals) ==
    Orderings({account_id \in DOMAIN proposals : proposals[account_id].stake > 0})

\* the filter_map(..).collect() over self.proposals, visited in the order iter
FromProposals(proposals, iter) ==
    [i \in DOMAIN iter |->
        AuthorityProposal(iter[i], proposals[iter[i]].public_key, proposals[iter[i]].stake)]

\* CarryOver that carries an entry with its penalty deducted from its amount
RECURSIVE CarryOver_deducted(_, _)
CarryOver_deducted(proposals, accepted) ==
    IF accepted = <<>> THEN <<>>
    ELSE LET proposal == Head(accepted)
             amount == IF HasKey(proposals, proposal.account_id)
                       THEN proposals[proposal.account_id].stake
                       ELSE 0
             keep == (amount < 0 /\ proposal.amount > -amount) \/ amount = 0
         IN  (IF keep THEN <<[proposal EXCEPT !.amount = @ + amount]>> ELSE <<>>)
                 \o CarryOver_deducted(proposals, Tail(accepted))

\* CarryOver that keeps every entry of the accepted list, whatever its penalty
RECURSIVE CarryOver_keep_all(_, _)
CarryOver_keep_all(proposals, accepted) ==
    IF accepted = <<>> THEN <<>>
    ELSE LET proposal == Head(accepted)
             amount == IF HasKey(proposals, proposal.account_id)
                       THEN proposals[proposal.account_id].stake
                       ELSE 0
             keep == amount <= 0
         IN  (IF keep THEN <<proposal>> ELSE <<>>) \o CarryOver_keep_all(proposals, Tail(accepted))

\* CarryOver that keeps an entry whose penalty equals its amount (`>=` for `>`)
RECURSIVE CarryOver_ge(_, _)
CarryOver_ge(proposals, accepted) ==
    IF accepted = <<>> THEN <<>>
    ELSE LET proposal == Head(accepted)
             amount == IF HasKey(proposals, proposal.account_id)
                       THEN proposals[proposal.account_id].stake
                       ELSE 0
             keep == (amount < 0 /\ proposal.amount >= -amount) \/ amount = 0
         IN  (IF keep THEN <<proposal>> ELSE <<>>) \o CarryOver_ge(proposals, Tail(accepted))

\* the loop over accepted_proposals[current_epoch]: the entries carried over
RECURSIVE CarryOver(_, _)
CarryOver(proposals, accepted) ==
    IF accepted = <<>> THEN <<>>
    ELSE LET proposal == Head(accepted)
             amount == IF HasKey(proposals, proposal.account_id)
                       THEN proposals[proposal.account_id].stake
                       ELSE 0
             keep == (amount < 0 /\ proposal.amount > -amount) \/ amount = 0
         IN  (IF keep THEN <<proposal>> ELSE <<>>) \o CarryOver(proposals, Tail(accepted))

\* new_proposals as handed to proposals_to_authority
NewProposals(self, iter) ==
    FromProposals(self.proposals, iter)
        \o CarryOver(self.proposals, self.accepted_proposals[self.current_epoch])

\* Boundary that builds the committees one epoch ahead (epoch_offset 1), over
\* the ones already in place
Boundary_offset_one(self, next_epoch, iter) ==
    IF ~HasKey(self.accepted_proposals, self.current_epoch)
    THEN [self EXCEPT !.panic = PanicMissingProposals]
    ELSE LET new_proposals == NewProposals(self, iter)
             pta == proposals_to_authority(self, new_proposals, 1)
         IN  IF pta.panic # NoPanic THEN [self EXCEPT !.panic = pta.panic]
             ELSE [self EXCEPT
                      !.current = MapExtend(@, pta.authorities),
                      !.current_threshold = MapInsert(@, next_epoch, pta.threshold),
                      !.current_epoch = next_epoch,
                      !.proposals = EmptyMap,
                      !.accepted_proposals = MapInsert(@, next_epoch, new_proposals)]

\* Boundary that leaves the proposals map as it is
Boundary_keep_proposals(self, next_epoch, iter) ==
    IF ~HasKey(self.accepted_proposals, self.current_epoch)
    THEN [self EXCEPT !.panic = PanicMissingProposals]
    ELSE LET new_proposals == NewProposals(self, iter)
             pta == proposals_to_authority(self, new_proposals, 2)
         IN  IF pta.panic # NoPanic THEN [self EXCEPT !.panic = pta.panic]
             ELSE [self EXCEPT
                      !.current = MapExtend(@, pta.authorities),
                      !.current_threshold = MapInsert(@, next_epoch, pta.threshold),
                      !.current_epoch = next_epoch,
                      !.accepted_proposals = MapInsert(@, next_epoch, new_proposals)]

\* Boundary that advances current_epoch before it builds the new committees
Boundary_early_epoch(self, next_epoch, iter) ==
    IF ~HasKey(self.accepted_proposals, self.current_epoch)
    THEN [self EXCEPT !.panic = PanicMissingProposals]
    ELSE LET new_proposals == NewProposals(self, iter)
             pta == proposals_to_authority([self EXCEPT !.current_epoch = next_epoch],
                                           new_proposals, 2)
         IN  IF pta.panic # NoPanic THEN [self EXCEPT !.panic = pta.panic]
             ELSE [self EXCEPT
                      !.current = MapExtend(@, pta.authorities),
                      !.current_threshold = MapInsert(@, next_epoch, pta.threshold),
                      !.current_epoch = next_epoch,
                      !.proposals = EmptyMap,
                      !.accepted_proposals = MapInsert(@, next_epoch, new_proposals)]

\* the body of `if next_epoch != self.current_epoch`
Boundary(self, next_epoch, iter) ==
    IF ~HasKey(self.accepted_proposals, self.current_epoch)
    THEN [self EXCEPT !.panic = PanicMissingProposals]
    ELSE LET new_proposals == NewProposals(self, iter)
             pta == proposals_to_authority(self, new_proposals, 2)
         IN  IF pta.panic # NoPanic THEN [self EXCEPT !.panic = pta.panic]
             ELSE [self EXCEPT
                      !.current = MapExtend(@, pta.authorities),
                      !.current_threshold = MapInsert(@, next_epoch, pta.threshold),
                      !.current_epoch = next_epoch,
                      !.proposals = EmptyMap,
                      !.accepted_proposals = MapInsert(@, next_epoch, new_proposals)]

\* the ledger part: proposals recorded, then absences penalized
Ledger(self, header) ==
    LET recorded == [self EXCEPT
                        !.proposals = RecordProposals(@, header.authority_proposal)]
        header_authorities == get_authorities(recorded, header.index)
    IN  IF ~header_authorities.ok THEN [recorded EXCEPT !.panic = PanicIndex]
        ELSE Penalize(recorded, header_authorities.value, header.authority_mask, 1)

\* process_block_header without the early return for index 0
process_block_header_unguarded(self, header, iter) ==
    LET ledger == Ledger(self, header)
        next_epoch == header.index \div authority_config.epoch_length
    IN  IF ledger.panic # NoPanic THEN ledger
        ELSE IF next_epoch # ledger.current_epoch
        THEN Boundary(ledger, next_epoch, iter)
        ELSE ledger

\* Authority::process_block_header; iter is the order the boundary iterates
\* self.proposals in
process_block_header(self, header, iter) ==
    IF header.index = 0 THEN self
    ELSE LET ledger == Ledger(self, header)
             next_epoch == header.index \div authority_config.epoch_length
         IN  IF ledger.panic # NoPanic THEN ledger
             ELSE IF next_epoch # ledger.current_epoch
             THEN Boundary(ledger, next_epoch, iter)
             ELSE ledger

----------------------------------------------------------------------------
(* The engine fed headers 1, 2, 3, ... in increasing gap-free order *)

\* the headers a caller may hand in next
NextHeaders ==
    { Header(header_index + 1, authority_proposal, authority_mask) :
        authority_proposal \in ProposalLists,
        authority_mask \in [1..authority_config.num_seats_per_slot -> BOOLEAN] }

\* the headers of the epoch in progress, header appended
HeadersAfter(header) ==
    IF header_index % authority_config.epoch_length = 0 THEN <<header>>
    ELSE Append(headers, header)

\* the threshold history after self processed header and became next
BuiltAfter(self, header, next) ==
    IF next.panic = NoPanic /\ next.current_epoch # self.current_epoch
    THEN MapInsert(built, self.current_epoch + 2,
                   next.current_threshold[next.current_epoch])
    ELSE built

TypeOK ==
    /\ authority_config \in Configs
    /\ rng \in RngStreams
    /\ authority.current_epoch \in Nat
    /\ header_index \in 0..MaxIndex
    /\ Len(headers) <= authority_config.epoch_length

FTIdle == [ok |-> FALSE, value |-> -1]

\* a call on the engine: the operation, its argument and what it returned
\* (process_block_header returns nothing: the panic it ended in, if any)
Call(op, arg, result) == [op |-> op, arg |-> arg, result |-> result]

NoCall == Call("none", <<>>, <<>>)

Init ==
    /\ authority_config \in Configs
    /\ rng \in RngStreams
    /\ authority = new
    /\ authority2 = new
    /\ header_index = 0
    /\ headers = <<>>
    /\ built = IF new.panic = NoPanic
               THEN MapInsert(MapInsert(EmptyMap, 0, new.current_threshold[0]),
                              1, new.current_threshold[1])
               ELSE EmptyMap
    /\ ft_proposed = <<>>
    /\ ft_num_seats = 0
    /\ ft_result = FTIdle
    /\ call = NoCall

ProcessBlockHeader ==
    /\ authority.panic = NoPanic
    /\ header_index < MaxIndex
    /\ \E header \in NextHeaders :
          \E iter \in IterOrders(Ledger(authority, header).proposals) :
             /\ authority' = process_block_header(authority, header, iter)
             /\ header_index' = header.index
             /\ headers' = HeadersAfter(header)
             /\ built' = BuiltAfter(authority, header, authority')
             /\ call' = Call("process_block_header", header, authority'.panic)
    /\ UNCHANGED <<authority_config, rng, authority2, ft_proposed, ft_num_seats, ft_result>>

Next == ProcessBlockHeader

Spec == Init /\ [][Next]_vars

----------------------------------------------------------------------------
(* Two engines with the same config, fed the same headers *)

ProcessBlockHeaderPair ==
    /\ authority.panic = NoPanic
    /\ authority2.panic = NoPanic
    /\ header_index < MaxIndex
    /\ \E header \in NextHeaders :
          \E iter \in IterOrders(Ledger(authority, header).proposals),
             iter2 \in IterOrders(Ledger(authority2, header).proposals) :
             /\ authority' = process_block_header(authority, header, iter)
             /\ authority2' = process_block_header(authority2, header, iter2)
             /\ header_index' = header.index
             /\ headers' = HeadersAfter(header)
             /\ built' = BuiltAfter(authority, header, authority')
             /\ call' = Call("process_block_header", header, authority'.panic)
    /\ UNCHANGED <<authority_config, rng, ft_proposed, ft_num_seats, ft_result>>

NextPair == ProcessBlockHeaderPair

SpecPair == Init /\ [][NextPair]_vars

----------------------------------------------------------------------------
(* The engine fed headers in order and then queried with get_authorities *)

\* the last call was a probe: a query, or a header with index 0.  A probe
\* leaves the engine as it was, so the runs that go on after it are the runs
\* without it: headers are fed from the states no probe has led to.
Probed ==
    \/ call.op = "get_authorities"
    \/ call.op = "process_block_header" /\ call.arg.index = 0

\* process_block_header on the next header of the chain
ProcessNextHeader == ~Probed /\ ProcessBlockHeader

\* the indices a caller asks for: genesis, the first block, and the blocks
\* around the last committee in place
QueryIndices ==
    {0, 1,
     (authority.current_epoch + 2) * authority_config.epoch_length,
     (authority.current_epoch + 2) * authority_config.epoch_length + 1}

\* get_authorities that caches an empty committee for an index it misses
GetAuthorities_caching ==
    \E index \in QueryIndices :
        /\ ~Probed
        /\ call' = Call("get_authorities", index, get_authorities(authority, index))
        /\ authority' = IF get_authorities(authority, index).ok THEN authority
                        ELSE [authority EXCEPT !.current = MapInsert(@, index, <<>>)]
        /\ UNCHANGED <<authority_config, rng, authority2, header_index, headers, built,
                       ft_proposed, ft_num_seats, ft_result>>

\* a call of get_authorities(&self, index): the engine is only read
GetAuthorities ==
    \E index \in QueryIndices :
        /\ ~Probed
        /\ call' = Call("get_authorities", index, get_authorities(authority, index))
        /\ UNCHANGED <<authority_config, rng, authority, authority2, header_index, headers,
                       built, ft_proposed, ft_num_seats, ft_result>>

NextQuery == ProcessNextHeader \/ GetAuthorities

SpecQuery == Init /\ [][NextQuery]_vars

----------------------------------------------------------------------------
(* The engine fed headers in order, and then a header with index 0 *)

\* headers with index 0, whatever they carry
GenesisHeaders ==
    { Header(0, authority_proposal, authority_mask) :
        authority_proposal \in ProposalLists,
        authority_mask \in { [i \in 1..authority_config.num_seats_per_slot |-> bit] :
                                bit \in BOOLEAN } }

\* process_block_header on a header with index 0 (the boundary code is not
\* reached, so no iteration order is drawn)
ProcessGenesisHeader ==
    /\ authority.panic = NoPanic
    /\ ~Probed
    /\ \E header \in GenesisHeaders :
          /\ authority' = process_block_header(authority, header, <<>>)
          /\ call' = Call("process_block_header", header, authority'.panic)
    /\ UNCHANGED <<authority_config, rng, authority2, header_index, headers, built,
                   ft_proposed, ft_num_seats, ft_result>>

NextGenesis == ProcessNextHeader \/ ProcessGenesisHeader

SpecGenesis == Init /\ [][NextGenesis]_vars

----------------------------------------------------------------------------
(* The engine fed headers in order, up to the first header whose mask length *)
(* is not num_seats_per_slot                                                 *)

\* masks of a length other than num_seats_per_slot: empty, one bit short, one
\* bit long; all bits alike
MalformedMasks ==
    { [i \in 1..n |-> bit] :
        n \in {0, authority_config.num_seats_per_slot - 1,
                  authority_config.num_seats_per_slot + 1},
        bit \in BOOLEAN }

\* the next header of the chain with such a mask
MalformedHeaders ==
    { Header(header_index + 1, authority_proposal, authority_mask) :
        authority_proposal \in ProposalLists,
        authority_mask \in MalformedMasks }

\* the last header processed had a mask of another length than num_seats_per_slot
Malformed ==
    /\ call.op = "process_block_header"
    /\ Len(call.arg.authority_mask) # authority_config.num_seats_per_slot

\* process_block_header on the next header, all masks so far of the right length
ProcessWellFormedHeader == ~Malformed /\ ProcessBlockHeader

\* process_block_header on a next header whose mask has another length
ProcessMalformedHeader ==
    /\ authority.panic = NoPanic
    /\ ~Malformed
    /\ header_index < MaxIndex
    /\ \E header \in MalformedHeaders :
          \E iter \in IterOrders(Ledger(authority, header).proposals) :
             /\ authority' = process_block_header(authority, header, iter)
             /\ header_index' = header.index
             /\ headers' = HeadersAfter(header)
             /\ built' = BuiltAfter(authority, header, authority')
             /\ call' = Call("process_block_header", header, authority'.panic)
    /\ UNCHANGED <<authority_config, rng, authority2, ft_proposed, ft_num_seats, ft_result>>

NextMalformed == ProcessWellFormedHeader \/ ProcessMalformedHeader

SpecMalformed == Init /\ [][NextMalformed]_vars

----------------------------------------------------------------------------
(* Authority::new over a block store that holds headers, next to an engine   *)
(* built over the genesis-only store and fed the stored headers one by one   *)

\* what blockchain.get_header(index) may return: None (<<>>) or Some(header)
StoredAt(index) ==
    {<<>>} \cup
    { <<Header(index, authority_proposal, authority_mask)>> :
        authority_proposal \in ProposalLists,
        authority_mask \in [1..authority_config.num_seats_per_slot -> BOOLEAN] }

\* the header of the best block, with index best
BestAt(best) ==
    { <<Header(best, authority_proposal,
               [i \in 1..authority_config.num_seats_per_slot |-> FALSE])>> :
        authority_proposal \in ProposalLists }

\* the block stores with best index best: store[i] is get_header(i)
StoresOf(best) ==
    IF best = 0 THEN {<<>>}
    ELSE {store \in [1..best -> UNION {StoredAt(i) : i \in 1..best} \cup BestAt(best)] :
             /\ \A i \in 1..(best - 1) : store[i] \in StoredAt(i)
             /\ store[best] \in BestAt(best)}

Stores == UNION {StoresOf(best) : best \in 0..MaxIndex}

\* the engines that processing header can leave, one for every order in
\* which the boundary may iterate self.proposals
AfterHeader(self, header) ==
    IF self.panic # NoPanic THEN {self}
    ELSE {process_block_header(self, header, iter) :
             iter \in IterOrders(Ledger(self, header).proposals)}

\* the loop `for index in 1..last_index` from position index on, started from
\* any of the engines in selves
RECURSIVE ReplayFrom(_, _, _)
ReplayFrom(selves, store, index) ==
    IF index >= Len(store) THEN selves
    ELSE IF store[index] = <<>> THEN ReplayFrom(selves, store, index + 1)
    ELSE ReplayFrom(UNION {AfterHeader(self, store[index][1]) : self \in selves},
                    store, index + 1)

\* the engines Authority::new can return over store (a panicked one stands
\* for a construction that panicked)
new_over(store) == ReplayFrom({new}, store, 1)

\* the store the engine was constructed over
Store == call.arg

InitReplay ==
    /\ authority_config \in Configs
    /\ rng \in RngStreams
    /\ authority = EmptyAuthority
    /\ authority2 = EmptyAuthority
    /\ header_index = 0
    /\ headers = <<>>
    /\ built = EmptyMap
    /\ ft_proposed = <<>>
    /\ ft_num_seats = 0
    /\ ft_result = FTIdle
    /\ call = NoCall

\* Authority::new over a store for `authority`, and over the genesis-only
\* store for `authority2`
Bootstrap ==
    /\ call.op = NoCall.op
    /\ \E store \in Stores :
          \E constructed \in new_over(store) :
             /\ authority' = constructed
             /\ call' = Call("new", store, constructed.panic)
    /\ authority2' = new
    /\ UNCHANGED <<authority_config, rng, header_index, headers, built,
                   ft_proposed, ft_num_seats, ft_result>>

\* the caller hands authority2 the next stored header below the best index,
\* or passes over an index the store has no header for
FeedStored ==
    /\ call.op = "new"
    /\ authority2.panic = NoPanic
    /\ header_index + 1 < Len(Store)
    /\ header_index' = header_index + 1
    /\ authority2' \in
          IF Store[header_index + 1] = <<>> THEN {authority2}
          ELSE AfterHeader(authority2, Store[header_index + 1][1])
    /\ UNCHANGED <<authority_config, rng, authority, headers, built, call,
                   ft_proposed, ft_num_seats, ft_result>>

NextReplay == Bootstrap \/ FeedStored

SpecReplay == InitReplay /\ [][NextReplay]_vars

----------------------------------------------------------------------------
(* find_threshold applied to bounded inputs and to the inputs of test_find_threshold *)

FTTests ==
    { << <<1000000, 1000000, 10>>, 10 >>,
      << <<1000000000, 10>>, 10 >>,
      << <<1000000000>>, 1000000000 >>,
      << <<1000, 1, 1, 1, 1, 1, 1, 1, 1, 1>>, 1 >>,
      << <<1, 1, 2>>, 100 >> }

FTInputs ==
    { <<proposed, num_seats>> :
        proposed \in SeqsUpTo(0..MaxAmount, MaxLen), num_seats \in 0..MaxNumSeats }
    \cup FTTests

FTDone == ft_result # FTIdle

InitFT ==
    /\ authority_config = TestConfig
    /\ rng \in RngStreams
    /\ authority = new
    /\ authority2 = new
    /\ header_index = 0
    /\ headers = <<>>
    /\ built = EmptyMap
    /\ \E input \in FTInputs :
          /\ ft_proposed = input[1]
          /\ ft_num_seats = input[2]
    /\ ft_result = FTIdle
    /\ call = NoCall

RunFindThreshold ==
    /\ ~FTDone
    /\ ft_result' = find_threshold(ft_proposed, ft_num_seats)
    /\ UNCHANGED <<authority_config, rng, authority, authority2, header_index, headers, built,
                   call, ft_proposed, ft_num_seats>>

NextFT == RunFindThreshold

SpecFT == InitFT /\ [][NextFT]_vars

----------------------------------------------------------------------------
(* Authority::new applied to bounded configs, over a chain that holds only genesis *)

\* initial_authorities of zero, one or two distinct accounts
NewAuthorityLists ==
    {<<>>}
    \cup { <<AuthorityProposal("0", "pk0", a)>> : a \in 0..MaxAmount }
    \cup { <<AuthorityProposal("0", "pk0", a), AuthorityProposal("1", "pk1", b)>> :
              a \in 0..MaxAmount, b \in 0..MaxAmount }

NewConfigs ==
    { AuthorityConfig(initial_authorities, epoch_length, num_seats_per_slot) :
        initial_authorities \in NewAuthorityLists,
        epoch_length \in 1..MaxEpochLength,
        num_seats_per_slot \in 1..MaxSeatsPerSlot }
    \cup {TestConfig}

\* Authority::new has returned or panicked
Constructed == authority # EmptyAuthority

InitNew ==
    /\ authority_config \in NewConfigs
    /\ rng \in RngStreams
    /\ authority = EmptyAuthority
    /\ authority2 = EmptyAuthority
    /\ header_index = 0
    /\ headers = <<>>
    /\ built = EmptyMap
    /\ ft_proposed = <<>>
    /\ ft_num_seats = 0
    /\ ft_result = FTIdle
    /\ call = NoCall

Construct ==
    /\ ~Constructed
    /\ authority' = new
    /\ authority2' = new
    /\ UNCHANGED <<authority_config, rng, header_index, headers, built, call,
                   ft_proposed, ft_num_seats, ft_result>>

NextNew == Construct

SpecNew == InitNew /\ [][NextNew]_vars

----------------------------------------------------------------------------
(* Properties *)

EpochLength == authority_config.epoch_length
NumSeatsPerSlot == authority_config.num_seats_per_slot
NumSeats == NumSeatsPerSlot * EpochLength

\* the block indices of epoch e
Slots(e) == (e * EpochLength + 1)..((e + 1) * EpochLength)

AccountsOf(list) == {list[i].account_id : i \in DOMAIN list}

\* reference sum of floor(a_i / t), without the early exit of the solver
RECURSIVE FloorSum(_, _)
FloorSum(amounts, t) ==
    IF amounts = <<>> THEN 0 ELSE (Head(amounts) \div t) + FloorSum(Tail(amounts), t)

\* number of seats account_id holds in the committees of epoch e
SeatsIn(self, account_id, e) ==
    Cardinality({<<i, k>> \in Slots(e) \X (1..NumSeatsPerSlot) :
                    /\ HasKey(self.current, i)
                    /\ k \in DOMAIN self.current[i]
                    /\ self.current[i][k].account_id = account_id})

\* C1: two engines with the same config, fed the same headers in increasing
\* order, answer get_authorities(i) alike for every index i: same committee,
\* same seat order.
C1_Determinism ==
    \A i \in {0} \cup DOMAIN authority.current \cup DOMAIN authority2.current :
        get_authorities(authority, i) = get_authorities(authority2, i)

\* C2: committees[i] is defined with exactly num_seats_per_slot entries for
\* every 1 <= i <= (current_epoch + 2) * epoch_length, so every built epoch
\* holds epoch_length * num_seats_per_slot seats.
C2_CommitteesComplete ==
    /\ \A i \in 1..((authority.current_epoch + 2) * EpochLength) :
          /\ HasKey(authority.current, i)
          /\ Len(authority.current[i]) = NumSeatsPerSlot
    /\ \A e \in 0..(authority.current_epoch + 1) :
          Cardinality({<<i, k>> \in Slots(e) \X (1..NumSeatsPerSlot) :
                          i \in DOMAIN authority.current /\ k \in DOMAIN authority.current[i]})
             = NumSeats

\* a boundary has been crossed and the committees two epochs ahead are in place
C2_Witness ==
    /\ authority.panic = NoPanic
    /\ authority.current_epoch >= 1
    /\ HasKey(authority.current, (authority.current_epoch + 2) * EpochLength)

\* scenario S2: header 1 with mask [true, false], header 2 with mask [true, true]
S2_Headers == << Header(1, <<>>, <<TRUE, FALSE>>), Header(2, <<>>, <<TRUE, TRUE>>) >>

\* the account in seat 1 of block 1
S2_Seat1 == authority.current[1][2].account_id

S2_AfterHeader1 == authority_config = TestConfig /\ headers = SubSeq(S2_Headers, 1, 1)

S2_AfterHeader2 == authority_config = TestConfig /\ headers = S2_Headers

\* C3 as stated: in scenario S2 the epoch-0 threshold is 50, the account in
\* seat 1 of block 1 is penalized by exactly 50, and after header 2 the epoch
\* is 1, blocks 5 and 6 have 2-element committees and that account is in the
\* proposal list the new committees are built from.
C3_Original ==
    /\ S2_AfterHeader1 =>
          /\ authority.current_threshold[0] = 50
          /\ HasKey(authority.proposals, S2_Seat1)
          /\ authority.proposals[S2_Seat1].stake = -50
    /\ S2_AfterHeader2 =>
          /\ authority.current_epoch = 1
          /\ get_authorities(authority, 5).ok /\ Len(get_authorities(authority, 5).value) = 2
          /\ get_authorities(authority, 6).ok /\ Len(get_authorities(authority, 6).value) = 2
          /\ S2_Seat1 \in AccountsOf(authority.accepted_proposals[1])

\* C3 amended: in scenario S2 the epoch-0 threshold is 100, the account in
\* seat 1 of block 1 is penalized by exactly 100, and after header 2 the epoch
\* is 1, blocks 5 and 6 have 2-element committees and that account is dropped:
\* it is not in the proposal list the new committees are built from and holds
\* no seat in blocks 5 and 6.
C3_Amended ==
    /\ S2_AfterHeader1 =>
          /\ authority.current_threshold[0] = 100
          /\ HasKey(authority.proposals, S2_Seat1)
          /\ authority.proposals[S2_Seat1].stake = -100
    /\ S2_AfterHeader2 =>
          /\ authority.panic = NoPanic
          /\ authority.current_epoch = 1
          /\ get_authorities(authority, 5).ok /\ Len(get_authorities(authority, 5).value) = 2
          /\ get_authorities(authority, 6).ok /\ Len(get_authorities(authority, 6).value) = 2
          /\ S2_Seat1 \notin AccountsOf(authority.accepted_proposals[1])
          /\ SeatsIn(authority, S2_Seat1, 2) = 0

C3_Witness == S2_AfterHeader2 /\ authority.current_epoch = 1 /\ HasKey(authority.current, 6)

\* C4: for every epoch e >= 1 whose committees exist, accepted_proposals[e]
\* exists and every authority seated in committees[e * epoch_length + 1] has
\* its account in accepted_proposals[e].
C4_SeatedAreAccepted ==
    \A e \in 1..(authority.current_epoch + 2) :
        HasKey(authority.current, e * EpochLength + 1) =>
            /\ HasKey(authority.accepted_proposals, e)
            /\ AccountsOf(authority.current[e * EpochLength + 1])
                  \subseteq AccountsOf(authority.accepted_proposals[e])

\* C5: thresholds[e] and accepted_proposals[e] are defined for every epoch
\* 0 <= e <= current_epoch + 1.
C5_MapsDefined ==
    \A e \in 0..(authority.current_epoch + 1) :
        /\ HasKey(authority.current_threshold, e)
        /\ HasKey(authority.accepted_proposals, e)

\* C6: for every epoch e with thresholds[e] defined, thresholds[e] is the
\* threshold the solver returned when the committees of epoch e were built
\* (the penalty of a missed seat in header i is taken from this map).
C6_ThresholdOfBuild ==
    \A e \in DOMAIN authority.current_threshold :
        HasKey(built, e) /\ authority.current_threshold[e] = built[e]

\* scenario S6: every mask bit false in both headers of epoch 0, no proposals
S6_Headers == << Header(1, <<>>, <<FALSE, FALSE>>), Header(2, <<>>, <<FALSE, FALSE>>) >>

S6_AfterHeader2 == authority_config = TestConfig /\ headers = S6_Headers

\* C7 as stated: in scenario S6 every initial account's accumulated penalty
\* exceeds 100 in magnitude at the boundary, the new proposal list is empty,
\* find_threshold fails on it, and the boundary header aborts without
\* installing new committees.
C7_Original ==
    S6_AfterHeader2 =>
        /\ \A p \in Range(TestAuthorities) :
              /\ HasKey(authority.proposals, p.account_id)
              /\ -authority.proposals[p.account_id].stake > 100
        /\ NewProposals(authority, <<>>) = <<>>
        /\ ~find_threshold(<<>>, NumSeats).ok
        /\ authority.panic = PanicThreshold
        /\ authority.current_epoch = 0
        /\ DOMAIN authority.current = 1..4

\* C7 amended: in scenario S6 every initial account's accumulated penalty
\* equals 100 in magnitude at the boundary (it reaches the account's amount),
\* the new proposal list is empty, find_threshold returns Ok(1) on it, and the
\* boundary header aborts on the seat-count assertion of
\* proposals_to_authority without installing new committees.
C7_Amended ==
    S6_AfterHeader2 =>
        /\ \A p \in Range(TestAuthorities) :
              /\ HasKey(authority.proposals, p.account_id)
              /\ -authority.proposals[p.account_id].stake = 100
        /\ NewProposals(authority, <<>>) = <<>>
        /\ find_threshold(<<>>, NumSeats) = [ok |-> TRUE, value |-> 1]
        /\ authority.panic = PanicSeats
        /\ authority.current_epoch = 0
        /\ DOMAIN authority.current = 1..4

C7_Witness == S6_AfterHeader2 /\ authority.panic # NoPanic

\* largest t in 1..sum with sum_i floor(a_i / t) >= num_seats, by exhaustive search
BruteForceThreshold(amounts, num_seats) ==
    CHOOSE t \in 1..SumSeq(amounts) :
        /\ FloorSum(amounts, t) >= num_seats
        /\ \A u \in (t + 1)..(SumSeq(amounts) + 1) : FloorSum(amounts, u) < num_seats

FTValid ==
    /\ ft_proposed # <<>>
    /\ ft_num_seats >= 1
    /\ \A i \in DOMAIN ft_proposed : ft_proposed[i] >= ft_num_seats

\* C8: for a non-empty list with every amount >= S >= 1, find_threshold
\* returns Ok(T) with T >= 1, sum_i floor(a_i / T) >= S and
\* sum_i floor(a_i / (T + 1)) < S; on the bounded inputs T is the largest
\* such integer found by exhaustive search, and the two inputs quoted from
\* test_find_threshold give 200000 and 1.
C8_ThresholdMaximal ==
    (FTDone /\ FTValid) =>
        /\ ft_result.ok
        /\ ft_result.value >= 1
        /\ FloorSum(ft_proposed, ft_result.value) >= ft_num_seats
        /\ FloorSum(ft_proposed, ft_result.value + 1) < ft_num_seats
        /\ (SumSeq(ft_proposed) <= MaxAmount * MaxLen) =>
              ft_result.value = BruteForceThreshold(ft_proposed, ft_num_seats)
        /\ (ft_proposed = <<1000000, 1000000, 10>> /\ ft_num_seats = 10) =>
              ft_result.value = 200000
        /\ (ft_proposed = <<1000000000>> /\ ft_num_seats = 1000000000) =>
              ft_result.value = 1

C8_Witness ==
    /\ FTDone /\ FTValid
    /\ Len(ft_proposed) = 3
    /\ ft_result.ok
    /\ ft_result.value > 1

\* C9: find_threshold returns an error if and only if some amount is
\* strictly less than the seat count S.
C9_ErrorIffBelow ==
    FTDone =>
        (~ft_result.ok <=> \E i \in DOMAIN ft_proposed : ft_proposed[i] < ft_num_seats)

C9_Witness ==
    /\ FTDone
    /\ ft_proposed = <<1, 1, 2>>
    /\ ft_num_seats = 100
    /\ ~ft_result.ok

\* the last header crossed an epoch boundary; epoch BoundaryEpoch just completed
AtBoundary ==
    /\ header_index > 0
    /\ authority.panic = NoPanic
    /\ header_index % EpochLength = 0

BoundaryEpoch == (header_index \div EpochLength) - 1

\* account_id staked 300 in a header of epoch e, the epoch that `headers` holds,
\* and sat in no committee of epoch e
Staked300(account_id, e) ==
    /\ \E i \in DOMAIN headers : \E j \in DOMAIN headers[i].authority_proposal :
          /\ headers[i].authority_proposal[j].account_id = account_id
          /\ headers[i].authority_proposal[j].amount = 300
    /\ SeatsIn(authority, account_id, e) = 0

\* the threshold computed for the build at the boundary just crossed
BoundaryThreshold == built[BoundaryEpoch + 2]

\* the seat tokens of the proposal list of the build at the boundary just crossed
BoundaryTokens ==
    FloorSum([i \in DOMAIN authority.accepted_proposals[authority.current_epoch] |->
                 authority.accepted_proposals[authority.current_epoch][i].amount],
             BoundaryThreshold)

\* C10 as stated: an account outside the committee of epoch e that stakes 300
\* in a header of epoch e holds exactly floor(300 / T) seats in the committees
\* built at that epoch's boundary (epoch e + 2), T the threshold of that build.
C10_Original ==
    AtBoundary =>
        \A account_id \in {"x", "w"} :
            Staked300(account_id, BoundaryEpoch) =>
                SeatsIn(authority, account_id, BoundaryEpoch + 2) = 300 \div BoundaryThreshold

\* C10 amended: such an account holds at most floor(300 / T) seats in the
\* committees of epoch e + 2, and exactly floor(300 / T) when the proposal list
\* of the build yields exactly epoch_length * num_seats_per_slot seat tokens
\* (the committees take only that many tokens of the shuffled list).
C10_Amended ==
    AtBoundary =>
        \A account_id \in {"x", "w"} :
            Staked300(account_id, BoundaryEpoch) =>
                /\ SeatsIn(authority, account_id, BoundaryEpoch + 2) <= 300 \div BoundaryThreshold
                /\ (BoundaryTokens = NumSeats) =>
                      SeatsIn(authority, account_id, BoundaryEpoch + 2) = 300 \div BoundaryThreshold

C10_Witness ==
    /\ AtBoundary
    /\ Staked300("x", BoundaryEpoch)
    /\ BoundaryTokens > NumSeats
    /\ SeatsIn(authority, "x", BoundaryEpoch + 2) >= 1

\* every initial amount reaches the seat count epoch_length * num_seats_per_slot
AmountsCoverSeats ==
    \A i \in DOMAIN authority_config.initial_authorities :
        authority_config.initial_authorities[i].amount >= NumSeats

\* C11 as stated: for a config with a non-empty initial_authorities list whose
\* amounts are all strictly positive, epoch_length >= 1 and
\* num_seats_per_slot >= 1, Authority::new over a genesis-only chain completes
\* without panic and yields current_epoch = 0.
C11_Original ==
    (/\ Constructed
     /\ authority_config.initial_authorities # <<>>
     /\ \A i \in DOMAIN authority_config.initial_authorities :
           authority_config.initial_authorities[i].amount > 0
     /\ EpochLength >= 1
     /\ NumSeatsPerSlot >= 1)
        => (authority.panic = NoPanic /\ authority.current_epoch = 0)

\* C11 amended: for a config with a non-empty initial_authorities list whose
\* amounts are all at least epoch_length * num_seats_per_slot, epoch_length >= 1
\* and num_seats_per_slot >= 1, Authority::new over a genesis-only chain
\* completes without panic and yields current_epoch = 0.
C11_Amended ==
    (/\ Constructed
     /\ authority_config.initial_authorities # <<>>
     /\ AmountsCoverSeats
     /\ EpochLength >= 1
     /\ NumSeatsPerSlot >= 1)
        => (authority.panic = NoPanic /\ authority.current_epoch = 0)

\* construction succeeded with one amount above and one exactly at the seat count
C11_Witness ==
    /\ Constructed
    /\ authority.panic = NoPanic
    /\ Len(authority_config.initial_authorities) = 2
    /\ authority_config.initial_authorities[1].amount > NumSeats
    /\ authority_config.initial_authorities[2].amount = NumSeats
    /\ NumSeats = 4

\* C12: right after construction, before any header: get_authorities(i +
\* epoch_length) = get_authorities(i) for every i in 1..epoch_length,
\* thresholds[0] = thresholds[1], accepted_proposals[0] = accepted_proposals[1]
\* = initial_authorities, every index 1..2 * epoch_length returns a committee of
\* num_seats_per_slot members of the initial authorities, and index
\* 2 * epoch_length + 1 returns an error.
C12_AfterConstruction ==
    (Constructed /\ authority.panic = NoPanic /\ header_index = 0) =>
        /\ \A i \in 1..EpochLength :
              get_authorities(authority, i + EpochLength) = get_authorities(authority, i)
        /\ HasKey(authority.current_threshold, 0)
        /\ HasKey(authority.current_threshold, 1)
        /\ authority.current_threshold[0] = authority.current_threshold[1]
        /\ HasKey(authority.accepted_proposals, 0)
        /\ HasKey(authority.accepted_proposals, 1)
        /\ authority.accepted_proposals[0] = authority_config.initial_authorities
        /\ authority.accepted_proposals[1] = authority_config.initial_authorities
        /\ \A i \in 1..(2 * EpochLength) :
              /\ get_authorities(authority, i).ok
              /\ Len(get_authorities(authority, i).value) = NumSeatsPerSlot
              /\ AccountsOf(get_authorities(authority, i).value)
                    \subseteq AccountsOf(authority_config.initial_authorities)
        /\ ~get_authorities(authority, 2 * EpochLength + 1).ok

\* the engine of get_test_config right after construction, with the committees
\* that test_authority_genesis asserts for blocks 1 and 2
C12_Witness ==
    /\ Constructed
    /\ authority.panic = NoPanic
    /\ header_index = 0
    /\ authority_config = TestConfig
    /\ [k \in 1..2 |-> authority.current[1][k].account_id] = <<"0", "3">>
    /\ [k \in 1..2 |-> authority.current[4][k].account_id] = <<"2", "1">>

\* the step processed a header that crossed an epoch boundary
BoundaryStep == authority'.current_epoch # authority.current_epoch

\* the header the step processed
StepHeader == headers'[Len(headers')]

\* the engine at boundary time: the header's proposals recorded and its
\* absences penalized, the boundary not yet handled (the properties bind it
\* with a quantifier over a one-element set, so it is computed once)
StepLedger == Ledger(authority, StepHeader)

\* the stake recorded for account_id in self.proposals, 0 if there is none
RecordedStake(self, account_id) ==
    IF HasKey(self.proposals, account_id) THEN self.proposals[account_id].stake ELSE 0

\* an entry p of the accepted list survives: no recorded stake or 0, or a
\* penalty smaller than its amount
Survives(self, p) ==
    \/ RecordedStake(self, p.account_id) = 0
    \/ /\ RecordedStake(self, p.account_id) < 0
       /\ -RecordedStake(self, p.account_id) < p.amount

\* the accounts of the carry-over set of the boundary self stands at
CarriedAccounts(self) ==
    {p.account_id : p \in {q \in Range(self.accepted_proposals[self.current_epoch]) :
                                Survives(self, q)}}

\* no seat of the committees at indices in `indices` is held by an account
\* that had recorded stake <= 0 at the boundary and was not carried over
NoDroppedSeated(self, after, indices) ==
    \A i \in indices : \A k \in DOMAIN after.current[i] :
        LET account_id == after.current[i][k].account_id
        IN  ~(/\ RecordedStake(self, account_id) <= 0
              /\ account_id \notin CarriedAccounts(self))

\* C13 as stated: at every boundary, no seat of a committee of the epoch that
\* begins (the epoch-1 committees duplicated from the initial set included) or
\* of the epoch built at that boundary is held by an account that had recorded
\* stake <= 0 at the boundary and was not in its carry-over set.
C13_Original ==
    [][BoundaryStep =>
          \A ledger \in {StepLedger} :
              NoDroppedSeated(ledger, authority',
                              {i \in DOMAIN authority'.current :
                                  i > authority'.current_epoch * EpochLength})]_vars

\* C13 amended: at every boundary, no seat of a committee built at that
\* boundary is held by an account that had recorded stake <= 0 at the boundary
\* and was not in its carry-over set.
C13_Amended ==
    [][BoundaryStep =>
          \A ledger \in {StepLedger} :
              NoDroppedSeated(ledger, authority',
                              DOMAIN authority'.current \ DOMAIN authority.current)]_vars

\* an initial account dropped at the first boundary sits in an epoch-1
\* committee and in no committee built at that boundary
C13_Witness ==
    /\ AtBoundary
    /\ authority.current_epoch = 1
    /\ \E p \in Range(authority_config.initial_authorities) :
          /\ p.account_id \notin AccountsOf(authority.accepted_proposals[1])
          /\ SeatsIn(authority, p.account_id, 1) > 0
          /\ SeatsIn(authority, p.account_id, 2) = 0

\* C14: in every reachable state committees[0] is undefined (no operation
\* inserts key 0) and get_authorities(0) returns Ok with the empty list.
C14_NoCommitteeZero ==
    /\ ~HasKey(authority.current, 0)
    /\ get_authorities(authority, 0) = [ok |-> TRUE, value |-> <<>>]

\* construction and two boundaries have inserted committees, none under key 0
C14_Witness ==
    /\ authority.panic = NoPanic
    /\ authority.current_epoch = 2
    /\ Cardinality(DOMAIN authority.current) = 4 * EpochLength
    /\ get_authorities(authority, 0).value = <<>>

\* get_authorities(i) is an error exactly for i beyond the last committee in place
QueryErrorsExact ==
    \A i \in 0..((authority.current_epoch + 3) * EpochLength) :
        get_authorities(authority, i).ok <=> i <= (authority.current_epoch + 2) * EpochLength

\* the step was a call of get_authorities
QueryStep == ~Probed /\ call'.op = "get_authorities"

\* C15: in every reachable state (headers in order, gap-free, nothing pruned)
\* get_authorities(i) returns an error exactly for i > (current_epoch + 2) *
\* epoch_length and Ok for every i in 0..(current_epoch + 2) * epoch_length,
\* and a query, failing or succeeding, leaves the engine state unchanged.
C15_Queries ==
    /\ []QueryErrorsExact
    /\ [][QueryStep =>
             /\ authority' = authority
             /\ call'.result = get_authorities(authority, call'.arg)
             /\ call'.result.ok <=>
                   call'.arg <= (authority.current_epoch + 2) * EpochLength]_vars

\* after a boundary, a query one past the last committee has failed
C15_Witness ==
    /\ call.op = "get_authorities"
    /\ authority.current_epoch >= 1
    /\ call.arg = (authority.current_epoch + 2) * EpochLength + 1
    /\ ~call.result.ok

\* the step processed a header with index 0
GenesisStep == ~Probed /\ call'.op = "process_block_header" /\ call'.arg.index = 0

\* C16: process_block_header on a header with index 0 leaves the whole engine
\* state unchanged, whatever proposals and mask the header carries and
\* whatever the current state is.
C16_GenesisNoOp == [][GenesisStep => authority' = authority]_vars

\* a header with index 0 that carries proposals and an all-false mask was
\* handed to an engine past its first boundary with stakes on record
C16_Witness ==
    /\ call.op = "process_block_header"
    /\ call.arg.index = 0
    /\ call.arg.authority_proposal # <<>>
    /\ \A i \in DOMAIN call.arg.authority_mask : ~call.arg.authority_mask[i]
    /\ authority.current_epoch >= 1
    /\ authority.proposals # EmptyMap
    /\ authority.panic = NoPanic

\* every bit of the header's mask is true
AllTrue(header) == \A i \in DOMAIN header.authority_mask : header.authority_mask[i]

\* the step processed a header with index > 0 whose every mask bit is true
AllTrueStep ==
    /\ call'.op = "process_block_header"
    /\ call'.arg.index > 0
    /\ AllTrue(call'.arg)

C18_BoundaryInputsValid ==
    /\ authority.panic \notin {PanicThreshold, PanicSeats}
    /\ AtBoundary =>
          /\ authority.accepted_proposals[authority.current_epoch] # <<>>
          /\ \A i \in DOMAIN authority.accepted_proposals[authority.current_epoch] :
                authority.accepted_proposals[authority.current_epoch][i].amount >= NumSeats

\* the step processed a header (index > 0) whose mask length is not num_seats_per_slot
MalformedStep ==
    /\ call'.op = "process_block_header"
    /\ call'.arg.index > 0
    /\ Len(call'.arg.authority_mask) # NumSeatsPerSlot

\* C19: a header (index > 0) whose authority_mask length differs from
\* num_seats_per_slot (shorter, empty included, or longer) is an invariant
\* violation: process_block_header does not complete normally and applies no
\* penalties and no epoch transition for it.
C19_MaskLengthChecked ==
    [][MalformedStep =>
          /\ authority'.panic # NoPanic
          /\ authority'.current_epoch = authority.current_epoch
          /\ authority'.proposals \in
                {authority.proposals,
                 RecordProposals(authority.proposals, call'.arg.authority_proposal)}]_vars

\* the accounts with a positive recorded stake
Staked(self) == {account_id \in DOMAIN self.proposals : self.proposals[account_id].stake > 0}

\* C20: at a boundary an entry p of accepted_proposals[current_epoch] is
\* appended to the new list iff the account's recorded stake is absent or 0,
\* or negative with |stake| < p.amount; an account with stake > 0 is
\* represented only by its new proposal, each account appears at most once
\* in the new list, an entry with |stake| >= p.amount is dropped, and a
\* surviving entry is carried with its original amount.
C20_CarryOverRule ==
    [][BoundaryStep =>
          \A ledger \in {StepLedger} :
          LET accepted == ledger.accepted_proposals[ledger.current_epoch]
              new_proposals == authority'.accepted_proposals[authority'.current_epoch]
              fresh == SubSeq(new_proposals, 1, Cardinality(Staked(ledger)))
              carried == SubSeq(new_proposals, Cardinality(Staked(ledger)) + 1,
                                Len(new_proposals))
          IN  /\ carried = SelectSeq(accepted, LAMBDA p : Survives(ledger, p))
              /\ Range(fresh) =
                    {AuthorityProposal(account_id, ledger.proposals[account_id].public_key,
                                       ledger.proposals[account_id].stake) :
                        account_id \in Staked(ledger)}
              /\ Cardinality(AccountsOf(new_proposals)) = Len(new_proposals)
              /\ \A p \in Range(accepted) :
                    (RecordedStake(ledger, p.account_id) < 0
                        /\ -RecordedStake(ledger, p.account_id) >= p.amount)
                    => p.account_id \notin AccountsOf(new_proposals)]_vars

\* a boundary was crossed after the account of amount 300 missed a seat: it
\* is carried over with amount 300
C20_Witness ==
    /\ AtBoundary
    /\ \E i \in DOMAIN headers : \E k \in DOMAIN headers[i].authority_mask :
          /\ ~headers[i].authority_mask[k]
          /\ authority.current[headers[i].index][k].account_id = "0"
    /\ \A i \in DOMAIN headers : headers[i].authority_proposal = <<>>
    /\ AuthorityProposal("0", "pk0", 300)
          \in Range(authority.accepted_proposals[authority.current_epoch])

\* the accounts seated in the committees of the headers in hs
SeatedIn(self, hs) ==
    UNION {AccountsOf(self.current[hs[i].index]) : i \in DOMAIN hs}

\* the accounts that propose in the headers in hs
ProposingIn(hs) ==
    UNION {AccountsOf(hs[i].authority_proposal) : i \in DOMAIN hs}

\* after a header that returned: the epoch is floor(index / epoch_length), the
\* proposals map is empty right after a boundary, and inside an epoch it holds
\* entries only for accounts that proposed or were seated in that epoch's headers
EpochOfIndex ==
    (header_index >= 1 /\ authority.panic = NoPanic) =>
        /\ authority.current_epoch = header_index \div EpochLength
        /\ AtBoundary => authority.proposals = EmptyMap
        /\ ~AtBoundary =>
              DOMAIN authority.proposals
                 \subseteq ProposingIn(headers) \cup SeatedIn(authority, headers)

\* the step was a call of process_block_header, on a header with index > 0, that returned
ReturnedStep ==
    /\ call'.op = "process_block_header"
    /\ call'.arg.index > 0
    /\ authority'.panic = NoPanic

\* the epoch moves by 0 or 1, it moves exactly on a header whose index is a
\* multiple of epoch_length, and the boundary leaves the proposals map empty
EpochStep ==
    /\ authority'.current_epoch >= authority.current_epoch
    /\ authority'.current_epoch <= authority.current_epoch + 1
    /\ ReturnedStep => (BoundaryStep <=> call'.arg.index % EpochLength = 0)
    /\ BoundaryStep => authority'.proposals = EmptyMap

\* nothing recorded in an earlier epoch shows in the list built at a boundary:
\* its accounts are initial authorities or proposed in the epoch just ended
NoEarlierInfluence ==
    AtBoundary =>
        AccountsOf(authority.accepted_proposals[authority.current_epoch])
            \subseteq AccountsOf(authority_config.initial_authorities) \cup ProposingIn(headers)

\* C21 as stated: under in-order gap-free delivery, after header i >= 1 is
\* processed current_epoch = floor(i / epoch_length); current_epoch never
\* decreases and grows by at most 1 per header; a boundary transition happens
\* exactly when i is a multiple of epoch_length, and after it the proposals
\* map is empty, so proposals and penalties recorded in one epoch never
\* influence a later boundary.
C21_Original ==
    /\ []EpochOfIndex
    /\ []NoEarlierInfluence
    /\ [][EpochStep]_vars

\* C21 amended: the same progression, and after a boundary the proposals map
\* is empty, so what one epoch recorded is not in the map at a later boundary
\* (its effect stays in accepted_proposals, the carry-over source of the next
\* boundary).
C21_Amended ==
    /\ []EpochOfIndex
    /\ [][EpochStep]_vars

\* the second boundary was crossed by a header without proposals, and the
\* list it built holds x, which staked in the first epoch only
C21_Witness ==
    /\ AtBoundary
    /\ authority.current_epoch = 2
    /\ EpochLength = 1
    /\ call.arg.authority_proposal = <<>>
    /\ authority.proposals = EmptyMap
    /\ "x" \in AccountsOf(authority.accepted_proposals[2])

\* the position in hs of the last header in which account_id proposes, 0 if none
LastProposing(hs, account_id) ==
    LET at == {i \in DOMAIN hs : account_id \in AccountsOf(hs[i].authority_proposal)}
    IN  IF at = {} THEN 0 ELSE CHOOSE i \in at : \A j \in at : j <= i

\* the last proposal of account_id in one header's list
LastProposalOf(authority_proposal, account_id) ==
    LET at == {j \in DOMAIN authority_proposal :
                  authority_proposal[j].account_id = account_id}
    IN  authority_proposal[CHOOSE j \in at : \A k \in at : k <= j]

\* the seats account_id missed in the headers hs[from], ..., hs[Len(hs)]
MissedSeats(self, hs, account_id, from) ==
    Cardinality({<<i, k>> \in (from..Len(hs)) \X (1..NumSeatsPerSlot) :
                    /\ k \in DOMAIN hs[i].authority_mask
                    /\ ~hs[i].authority_mask[k]
                    /\ self.current[hs[i].index][k].account_id = account_id})

\* last proposed amount (0 if none) minus the epoch's threshold for every seat
\* missed at or after the header of that proposal
ExpectedStake(self, hs, account_id) ==
    LET last == LastProposing(hs, account_id)
        amount == IF last = 0 THEN 0
                  ELSE LastProposalOf(hs[last].authority_proposal, account_id).amount
        from == IF last = 0 THEN 1 ELSE last
    IN  amount - self.current_threshold[self.current_epoch]
                    * MissedSeats(self, hs, account_id, from)

\* the step was a call of process_block_header on a header with index > 0
HeaderStep == call'.op = "process_block_header" /\ call'.arg.index > 0

\* C22: inside an epoch a header first overwrites the entry of each proposing
\* account with its amount and public key, then subtracts
\* thresholds[current_epoch] once per false mask bit from the account seated
\* at that position (a zero entry is created if there is none); so after the
\* headers of an epoch so far, an account's recorded stake is its last
\* proposed amount (0 if none) minus thresholds[current_epoch] times its
\* missed seats in the headers at or after that of its last proposal.
C22_LedgerAccounting ==
    [][HeaderStep =>
          \A ledger \in {Ledger(authority, call'.arg)} :
              /\ DOMAIN ledger.proposals =
                    ProposingIn(headers')
                       \cup {account_id \in SeatedIn(authority, headers') :
                                MissedSeats(authority, headers', account_id, 1) > 0}
              /\ \A account_id \in DOMAIN ledger.proposals :
                    /\ ledger.proposals[account_id].stake =
                          ExpectedStake(authority, headers', account_id)
                    /\ LastProposing(headers', account_id) > 0 =>
                          ledger.proposals[account_id].public_key =
                             LastProposalOf(
                                headers'[LastProposing(headers', account_id)].authority_proposal,
                                account_id).public_key
              /\ ~BoundaryStep => authority'.proposals = ledger.proposals]_vars

\* account 1 missed a seat in the first header of the epoch and staked again
\* in the second, which erases the penalty; account 0 missed seats in both
C22_Witness ==
    /\ Len(headers) = 2
    /\ LastProposing(headers, "1") = 2
    /\ MissedSeats(authority, headers, "1", 1) = 1
    /\ MissedSeats(authority, headers, "1", 2) = 0
    /\ MissedSeats(authority, headers, "0", 1) > MissedSeats(authority, headers, "0", 2)
    /\ MissedSeats(authority, headers, "0", 2) >= 1

\* authority2 has been handed every stored header below the best index, or
\* has panicked on one
FedAll ==
    /\ call.op = "new"
    /\ \/ authority2.panic # NoPanic
       \/ header_index + 1 >= Len(Store)

\* C23: the engine constructed over a store with best index n is exactly the
\* engine constructed over the genesis-only store and then handed the stored
\* headers 1, ..., n - 1 in increasing order; the header at n is not
\* processed and an index without a stored header is skipped without error.
C23_ReplayEquivalence == FedAll => authority = authority2

\* the engine fed header by header is one of the engines construction over
\* the store can return, and equals it when the iteration orders leave one
ReplayAmongOutcomes ==
    FedAll =>
        /\ authority2 \in new_over(Store)
        /\ Cardinality(new_over(Store)) = 1 => authority = authority2

\* every committee in place stays as it is, and the only keys added are the
\* indices of epoch current_epoch + 2, at a boundary
CommitteesKept ==
    /\ \A i \in DOMAIN authority.current :
          /\ HasKey(authority'.current, i)
          /\ authority'.current[i] = authority.current[i]
          /\ get_authorities(authority', i) = get_authorities(authority, i)
    /\ DOMAIN authority'.current \ DOMAIN authority.current =
          IF BoundaryStep THEN Slots(authority.current_epoch + 2) ELSE {}

\* C24: under in-order gap-free delivery, once committees[i] is defined no
\* later process_block_header call overwrites or removes it; each boundary
\* inserts only the fresh keys (current_epoch + 2) * epoch_length + 1 ..
\* (current_epoch + 3) * epoch_length, so get_authorities(i) returns the same
\* committee at every later time, and an authority dropped at a boundary
\* keeps its already-assigned seats in the following epoch.
C24_CommitteeStability == [][HeaderStep => CommitteesKept]_vars

\* a boundary crossed by a header with an absent seat dropped an initial
\* account, which still holds a seat in the epoch that follows
C24_Witness ==
    /\ AtBoundary
    /\ ~AllTrue(call.arg)
    /\ \E p \in Range(authority_config.initial_authorities) :
          /\ p.account_id \notin
                AccountsOf(authority.accepted_proposals[authority.current_epoch])
          /\ SeatsIn(authority, p.account_id, authority.current_epoch) > 0

=============================================================================
